---- MODULE Spec2Model ----
(***************************************************************************)
(* acquirelease: the builder (createBuilder) and the transaction runner    *)
(* (Transaction / runTransaction) of src/src/index.ts.                     *)
(*                                                                         *)
(* The runner is an async function: every `await` is a point where it      *)
(* suspends, so each action below is the code between two suspension       *)
(* points (or up to a throw that the surrounding try/catch takes).          *)
(* Step indices are the 0-based `i` of the source; tasks[i] of the source  *)
(* is tasks[i + 1] here.                                                   *)
(***************************************************************************)
EXTENDS Integers, Sequences, FiniteSets, TLC

\* Bounds of the model.
MaxSteps == 3
NumInv == 2
MaxConcSteps == 2

\* Tags the caller may hand to add(); two steps may carry the same one.
Tags == {"db", "file"}

Invs == 1 .. NumInv
FirstInv == CHOOSE v \in Invs : \A w \in Invs : v <= w

VARIABLES
    tasks,                \* the tasks array shared by the builder chain and the runners
    built,                \* build() has returned a runner
    chain,                \* the calls made on the builder chain, in order (history)
    pc,                   \* per invocation: position in runTransaction
    i,                    \* per invocation: the local `i`
    results,              \* per invocation: the local `results`
    acquireError,         \* per invocation: the caught `acquireError`
    releaseErrors,        \* per invocation: `releaseErrors` of the rollback
    successReleaseErrors, \* per invocation: `successReleaseErrors`
    pending,              \* per invocation: what the current await waits for
    outcome,              \* per invocation: how the returned promise settled
    log                   \* per invocation: calls made and completions seen (history)

vars == <<tasks, built, chain, pc, i, results, acquireError, releaseErrors,
          successReleaseErrors, pending, outcome, log>>

invVars == <<pc, i, results, acquireError, releaseErrors,
             successReleaseErrors, pending, outcome, log>>

----------------------------------------------------------------------------
\* Values

\* `const results: Record<string, any> = {}`
EmptyResults == [t \in {} |-> 0]

\* No error caught / nothing settled yet.
None == [type |-> "none"]

\* The value of a property that an object does not have.
Undefined == [kind |-> "undefined"]

\* The value step s's acquire resolves to in invocation v: a fresh object
\* per call, as the acquire functions of the tests return.
Resource(v, s) == [kind |-> "resource", inv |-> v, step |-> s]

\* The value step s's acquire raises (throw or rejection) in invocation v.
AcquireFailure(v, s) == [type |-> "Error", op |-> "acquire", inv |-> v, step |-> s]

\* The value step s's release raises (throw or rejection) in invocation v.
ReleaseFailure(v, s) == [type |-> "Error", op |-> "release", inv |-> v, step |-> s]

\* new AggregateError(errors, message)
AggregateError(errors, message) ==
    [type |-> "AggregateError", errors |-> errors, message |-> message]

\* { tag, acquire, release }: release may be absent.
Step(tag, hasRelease) == [tag |-> tag, release |-> hasRelease]

\* How a called acquire or release comes back: it throws, it returns a plain
\* value, or it returns a promise that settles later.
Hows == {"throw", "return", "promise"}

----------------------------------------------------------------------------
\* History events

CallAcquire(s, how, prev) ==
    [ev |-> "call", op |-> "acquire", step |-> s, how |-> how, prev |-> prev]

CallRelease(s, how, resource, exit) ==
    [ev |-> "call", op |-> "release", step |-> s, how |-> how,
     resource |-> resource, exit |-> exit]

Done(op, s, ok, val) ==
    [ev |-> "done", op |-> op, step |-> s, ok |-> ok, val |-> val]

\* The calls on the builder chain.
AddCalled(step) == [call |-> "add", step |-> step]

BuildCalled == [call |-> "build"]

\* The completions a call logs at once: a throw or a plain return completes
\* the operation inside the call, a promise completes later.
Completed(op, s, how, good, bad) ==
    CASE how = "throw" -> <<Done(op, s, FALSE, bad)>>
      [] how = "return" -> <<Done(op, s, TRUE, good)>>
      [] OTHER -> <<>>

----------------------------------------------------------------------------
\* The pieces of runTransaction

\* results hoisted out of runTransaction: a run starts with the mapping
\* another run of the runner has filled.
HoistedResults(v) == results[CHOOSE w \in Invs : w # v]

\* const results = {} inside runTransaction: every run has its own mapping
FreshResults(v) == EmptyResults

\* The first resource stored under a tag is kept.
StoreResultKeepFirst(res, tag, value) == res @@ (tag :> value)

\* results[task.tag] = <value>
StoreResult(res, tag, value) == (tag :> value) @@ res

\* results[tag], the first argument of release; undefined when the mapping
\* has no entry for the tag
ReleaseArgument(res, tag) == IF tag \in DOMAIN res THEN res[tag] ELSE Undefined

\* The rollback Exit without the error.
RollbackExitNoError(err) == [isError |-> TRUE]

\* { isError: true, error: acquireError }
RollbackExit(err) == [isError |-> TRUE, error |-> err]

\* { isError: false }
SuccessExit == [isError |-> FALSE]

\* i-- (catch entry and loop exit): the last step that was acquired
Decrement(n) == n - 1

\* A failed release ends the walk.
NextIndexFailFast(n, ok) == IF ok THEN n - 1 ELSE 0 - 1

\* The walk without its i--.
NextIndexStays(n, ok) == n

\* i-- at the end of a turn of a release walk, whether or not the step had a
\* release and whether or not that release failed
NextIndex(n, ok) == n - 1

\* A release that is not awaited: the walk goes on while its promise is pending.
AwaitsReleaseNever(how) == FALSE

\* Only a plain return value is awaited; a returned promise is left floating.
AwaitsReleaseOnlyValues(how) == how = "return"

\* await Promise.resolve(release(...)): the runner waits for whatever the
\* release returned; only a throw inside the call skips the await
AwaitsRelease(how) == how # "throw"

\* The list keeps only the error pushed last.
PushKeepsLast(errs, err) == <<err>>

\* unshift instead of push.
PushFront(errs, err) == <<err>> \o errs

\* releaseErrors.push(releaseErr)
Push(errs, err) == Append(errs, err)

\* The rollback always wraps.
RollbackThrownAlwaysWrapped(err, errs) ==
    AggregateError(<<err>> \o errs, "Acquire failed and some releases also failed.")

\* The rollback aggregates the release errors only.
RollbackThrownReleasesOnly(err, errs) ==
    IF Len(errs) > 0
    THEN AggregateError(errs, "Acquire failed and some releases also failed.")
    ELSE err

\* What the rollback throws once the walk is over.
RollbackThrown(err, errs) ==
    IF Len(errs) > 0
    THEN AggregateError(<<err>> \o errs, "Acquire failed and some releases also failed.")
    ELSE err

\* The success path throws without looking at the length of the list.
SuccessSettledAlwaysThrows(res, errs) ==
    [kind |-> "rejected",
     error |-> AggregateError(errs,
         "All acquires succeeded, but there were errors during final release.")]

\* A single release error is thrown as it is.
SuccessSettledUnwrapsSingle(res, errs) ==
    IF Len(errs) > 1
    THEN [kind |-> "rejected",
          error |-> AggregateError(errs,
              "All acquires succeeded, but there were errors during final release.")]
    ELSE IF Len(errs) = 1
         THEN [kind |-> "rejected", error |-> errs[1]]
         ELSE [kind |-> "resolved", value |-> res]

\* The success path returns the mapping whatever the releases did.
SuccessSettledIgnoresErrors(res, errs) == [kind |-> "resolved", value |-> res]

\* How the invocation settles once the success walk is over.
SuccessSettled(res, errs) ==
    IF Len(errs) > 0
    THEN [kind |-> "rejected",
          error |-> AggregateError(errs,
              "All acquires succeeded, but there were errors during final release.")]
    ELSE [kind |-> "resolved", value |-> res]

----------------------------------------------------------------------------
Init ==
    /\ tasks = <<>>
    /\ built = FALSE
    /\ chain = <<>>
    /\ pc = [v \in Invs |-> "idle"]
    /\ i = [v \in Invs |-> 0]
    /\ results = [v \in Invs |-> EmptyResults]
    /\ acquireError = [v \in Invs |-> None]
    /\ releaseErrors = [v \in Invs |-> <<>>]
    /\ successReleaseErrors = [v \in Invs |-> <<>>]
    /\ pending = [v \in Invs |-> "none"]
    /\ outcome = [v \in Invs |-> None]
    /\ log = [v \in Invs |-> <<>>]

\* add() refuses a tag that a step of the chain already carries.
AddRejectsDuplicate(tag, hasRelease) ==
    /\ Len(tasks) < MaxSteps
    /\ \A k \in DOMAIN tasks : tasks[k].tag # tag
    /\ tasks' = Append(tasks, Step(tag, hasRelease))
    /\ chain' = Append(chain, AddCalled(Step(tag, hasRelease)))
    /\ UNCHANGED <<built, invVars>>

\* Builder.add(tag, acquire, release?)
Add(tag, hasRelease) ==
    /\ Len(tasks) < MaxSteps
    /\ tasks' = Append(tasks, Step(tag, hasRelease))
    /\ chain' = Append(chain, AddCalled(Step(tag, hasRelease)))
    /\ UNCHANGED <<built, invVars>>

\* build() calls the runner it has made before returning it.
BuildInvokes ==
    /\ built' = TRUE
    /\ chain' = IF built THEN chain ELSE Append(chain, BuildCalled)
    /\ pc' = [pc EXCEPT ![FirstInv] = "forward"]
    /\ i' = [i EXCEPT ![FirstInv] = 0]
    /\ results' = [results EXCEPT ![FirstInv] = EmptyResults]
    /\ log' = [log EXCEPT ![FirstInv] = <<>>]
    /\ outcome' = [outcome EXCEPT ![FirstInv] = None]
    /\ pending' = [pending EXCEPT ![FirstInv] = "none"]
    /\ UNCHANGED <<tasks, acquireError, releaseErrors, successReleaseErrors>>

\* Builder.build(); the history follows the chain up to the first build(),
\* which returns the runner that the invocations call.
Build ==
    /\ built' = TRUE
    /\ chain' = IF built THEN chain ELSE Append(chain, BuildCalled)
    /\ UNCHANGED <<tasks, invVars>>

Settled(v) == pc[v] \in {"resolved", "rejected"}

\* Calling the runner: a new run of runTransaction.
Invoke(v) ==
    /\ built
    /\ pc[v] = "idle" \/ Settled(v)
    /\ pc' = [pc EXCEPT ![v] = "forward"]
    /\ i' = [i EXCEPT ![v] = 0]
    /\ results' = [results EXCEPT ![v] = FreshResults(v)]
    /\ acquireError' = [acquireError EXCEPT ![v] = None]
    /\ releaseErrors' = [releaseErrors EXCEPT ![v] = <<>>]
    /\ successReleaseErrors' = [successReleaseErrors EXCEPT ![v] = <<>>]
    /\ pending' = [pending EXCEPT ![v] = "none"]
    /\ outcome' = [outcome EXCEPT ![v] = None]
    /\ log' = [log EXCEPT ![v] = <<>>]
    /\ UNCHANGED <<tasks, built, chain>>

\* The catch without its i--: the rollback starts at the step that failed.
CatchKeepsIndex(v, err) ==
    /\ acquireError' = [acquireError EXCEPT ![v] = err]
    /\ i' = i
    /\ releaseErrors' = [releaseErrors EXCEPT ![v] = <<>>]
    /\ pending' = [pending EXCEPT ![v] = "none"]
    /\ pc' = [pc EXCEPT ![v] = "rollback"]

\* catch (acquireError) { i--; const releaseErrors = [] ...
Catch(v, err) ==
    /\ acquireError' = [acquireError EXCEPT ![v] = err]
    /\ i' = [i EXCEPT ![v] = Decrement(i[v])]
    /\ releaseErrors' = [releaseErrors EXCEPT ![v] = <<>>]
    /\ pending' = [pending EXCEPT ![v] = "none"]
    /\ pc' = [pc EXCEPT ![v] = "rollback"]

\* task.acquire(results) called outside the try: a throw inside the call
\* leaves runTransaction at once, without rollback; a rejection does not.
AcquireCallThrowEscapes(v, how) ==
    /\ pc[v] = "forward"
    /\ i[v] < Len(tasks)
    /\ log' = [log EXCEPT ![v] =
                  Append(@, CallAcquire(i[v], how, results[v]))
                  \o Completed("acquire", i[v], how, Resource(v, i[v]), AcquireFailure(v, i[v]))]
    /\ IF how = "throw"
       THEN /\ outcome' = [outcome EXCEPT ![v] =
                               [kind |-> "rejected", error |-> AcquireFailure(v, i[v])]]
            /\ pc' = [pc EXCEPT ![v] = "rejected"]
            /\ UNCHANGED pending
       ELSE /\ pc' = [pc EXCEPT ![v] = "awaitAcquire"]
            /\ pending' = [pending EXCEPT ![v] = how]
            /\ UNCHANGED outcome
    /\ UNCHANGED <<tasks, built, chain, i, results, acquireError, releaseErrors,
                   successReleaseErrors>>

\* for (; i < tasks.length; ...) { task.acquire(results) ...
AcquireCall(v, how) ==
    /\ pc[v] = "forward"
    /\ i[v] < Len(tasks)
    /\ log' = [log EXCEPT ![v] =
                  Append(@, CallAcquire(i[v], how, results[v]))
                  \o Completed("acquire", i[v], how, Resource(v, i[v]), AcquireFailure(v, i[v]))]
    /\ IF how = "throw"
       THEN /\ Catch(v, AcquireFailure(v, i[v]))
            /\ UNCHANGED results
       ELSE /\ pc' = [pc EXCEPT ![v] = "awaitAcquire"]
            /\ pending' = [pending EXCEPT ![v] = how]
            /\ UNCHANGED <<i, results, acquireError, releaseErrors>>
    /\ UNCHANGED <<tasks, built, chain, successReleaseErrors, outcome>>

\* results[task.tag] = await Promise.resolve(...); i++   -- or the rejection
AcquireResume(v, ok) ==
    /\ pc[v] = "awaitAcquire"
    /\ pending[v] = "return" => ok
    /\ log' = [log EXCEPT ![v] =
                  IF pending[v] = "promise"
                  THEN Append(@, Done("acquire", i[v], ok,
                           IF ok THEN Resource(v, i[v]) ELSE AcquireFailure(v, i[v])))
                  ELSE @]
    /\ IF ok
       THEN /\ results' = [results EXCEPT ![v] =
                               StoreResult(@, tasks[i[v] + 1].tag, Resource(v, i[v]))]
            /\ i' = [i EXCEPT ![v] = @ + 1]
            /\ pending' = [pending EXCEPT ![v] = "none"]
            /\ pc' = [pc EXCEPT ![v] = "forward"]
            /\ UNCHANGED <<acquireError, releaseErrors>>
       ELSE /\ Catch(v, AcquireFailure(v, i[v]))
            /\ UNCHANGED results
    /\ UNCHANGED <<tasks, built, chain, successReleaseErrors, outcome>>

\* The for loop ends: i--; const successReleaseErrors = []
ForwardDone(v) ==
    /\ pc[v] = "forward"
    /\ ~(i[v] < Len(tasks))
    /\ i' = [i EXCEPT ![v] = Decrement(i[v])]
    /\ successReleaseErrors' = [successReleaseErrors EXCEPT ![v] = <<>>]
    /\ pc' = [pc EXCEPT ![v] = "release"]
    /\ UNCHANGED <<tasks, built, chain, results, acquireError, releaseErrors, pending, outcome, log>>

\* One call of release(results[tag], exit) in either walk.
ReleaseCalled(v, how, exit) ==
    log' = [log EXCEPT ![v] =
               Append(@, CallRelease(i[v], how,
                             ReleaseArgument(results[v], tasks[i[v] + 1].tag), exit))
               \o Completed("release", i[v], how, None, ReleaseFailure(v, i[v]))]

\* A release promise settles, seen by the await.
ReleaseSettled(v, ok) ==
    log' = [log EXCEPT ![v] =
               IF pending[v] = "promise"
               THEN Append(@, Done("release", i[v], ok,
                        IF ok THEN None ELSE ReleaseFailure(v, i[v])))
               ELSE @]

\* while (i >= 0) { if (release) { release(results[tag], {isError: true, ...}) ...
RollbackRelease(v, how) ==
    /\ pc[v] = "rollback"
    /\ i[v] >= 0
    /\ tasks[i[v] + 1].release
    /\ ReleaseCalled(v, how, RollbackExit(acquireError[v]))
    /\ IF AwaitsRelease(how)
       THEN /\ pc' = [pc EXCEPT ![v] = "awaitRollback"]
            /\ pending' = [pending EXCEPT ![v] = how]
            /\ UNCHANGED <<i, releaseErrors>>
       ELSE /\ releaseErrors' = [releaseErrors EXCEPT ![v] =
                    IF how = "throw" THEN Push(@, ReleaseFailure(v, i[v])) ELSE @]
            /\ i' = [i EXCEPT ![v] = NextIndex(i[v], how # "throw")]
            /\ UNCHANGED <<pc, pending>>
    /\ UNCHANGED <<tasks, built, chain, results, acquireError, successReleaseErrors, outcome>>

\* while (i >= 0) { if (release) {...}  i-- }   with no release
RollbackSkip(v) ==
    /\ pc[v] = "rollback"
    /\ i[v] >= 0
    /\ ~tasks[i[v] + 1].release
    /\ i' = [i EXCEPT ![v] = NextIndex(i[v], TRUE)]
    /\ UNCHANGED <<tasks, built, chain, pc, results, acquireError, releaseErrors,
                   successReleaseErrors, pending, outcome, log>>

\* The await of a rollback release comes back; catch (releaseErr) pushes.
RollbackResume(v, ok) ==
    /\ pc[v] = "awaitRollback"
    /\ pending[v] = "return" => ok
    /\ ReleaseSettled(v, ok)
    /\ releaseErrors' = [releaseErrors EXCEPT ![v] =
                            IF ok THEN @ ELSE Push(@, ReleaseFailure(v, i[v]))]
    /\ i' = [i EXCEPT ![v] = NextIndex(i[v], ok)]
    /\ pending' = [pending EXCEPT ![v] = "none"]
    /\ pc' = [pc EXCEPT ![v] = "rollback"]
    /\ UNCHANGED <<tasks, built, chain, results, acquireError, successReleaseErrors, outcome>>

\* The catch block without its throw: after the rollback walk the for loop
\* goes on with i++.
RollbackThrowContinues(v) ==
    /\ pc[v] = "rollback"
    /\ ~(i[v] >= 0)
    /\ i' = [i EXCEPT ![v] = @ + 1]
    /\ pc' = [pc EXCEPT ![v] = "forward"]
    /\ UNCHANGED <<tasks, built, chain, results, acquireError, releaseErrors,
                   successReleaseErrors, pending, outcome, log>>

\* After the rollback walk: throw combinedError / throw acquireError
RollbackThrow(v) ==
    /\ pc[v] = "rollback"
    /\ ~(i[v] >= 0)
    /\ outcome' = [outcome EXCEPT ![v] =
                      [kind |-> "rejected",
                       error |-> RollbackThrown(acquireError[v], releaseErrors[v])]]
    /\ pc' = [pc EXCEPT ![v] = "rejected"]
    /\ UNCHANGED <<tasks, built, chain, i, results, acquireError, releaseErrors,
                   successReleaseErrors, pending, log>>

\* while (i >= 0) { if (release) { release(results[tag], {isError: false}) ...
SuccessRelease(v, how) ==
    /\ pc[v] = "release"
    /\ i[v] >= 0
    /\ tasks[i[v] + 1].release
    /\ ReleaseCalled(v, how, SuccessExit)
    /\ IF AwaitsRelease(how)
       THEN /\ pc' = [pc EXCEPT ![v] = "awaitRelease"]
            /\ pending' = [pending EXCEPT ![v] = how]
            /\ UNCHANGED <<i, successReleaseErrors>>
       ELSE /\ successReleaseErrors' = [successReleaseErrors EXCEPT ![v] =
                    IF how = "throw" THEN Push(@, ReleaseFailure(v, i[v])) ELSE @]
            /\ i' = [i EXCEPT ![v] = NextIndex(i[v], how # "throw")]
            /\ UNCHANGED <<pc, pending>>
    /\ UNCHANGED <<tasks, built, chain, results, acquireError, releaseErrors, outcome>>

\* Without the `if (release)` test the call of the missing release throws,
\* and the catch records the TypeError as a release error.
SuccessSkipRecordsError(v) ==
    /\ pc[v] = "release"
    /\ i[v] >= 0
    /\ ~tasks[i[v] + 1].release
    /\ successReleaseErrors' = [successReleaseErrors EXCEPT ![v] =
                                   Push(@, ReleaseFailure(v, i[v]))]
    /\ i' = [i EXCEPT ![v] = NextIndex(i[v], FALSE)]
    /\ UNCHANGED <<tasks, built, chain, pc, results, acquireError, releaseErrors,
                   pending, outcome, log>>

\* while (i >= 0) { if (release) {...}  i-- }   with no release
SuccessSkip(v) ==
    /\ pc[v] = "release"
    /\ i[v] >= 0
    /\ ~tasks[i[v] + 1].release
    /\ i' = [i EXCEPT ![v] = NextIndex(i[v], TRUE)]
    /\ UNCHANGED <<tasks, built, chain, pc, results, acquireError, releaseErrors,
                   successReleaseErrors, pending, outcome, log>>

\* The await of a success release comes back; catch (err) pushes.
SuccessResume(v, ok) ==
    /\ pc[v] = "awaitRelease"
    /\ pending[v] = "return" => ok
    /\ ReleaseSettled(v, ok)
    /\ successReleaseErrors' = [successReleaseErrors EXCEPT ![v] =
                                   IF ok THEN @ ELSE Push(@, ReleaseFailure(v, i[v]))]
    /\ i' = [i EXCEPT ![v] = NextIndex(i[v], ok)]
    /\ pending' = [pending EXCEPT ![v] = "none"]
    /\ pc' = [pc EXCEPT ![v] = "release"]
    /\ UNCHANGED <<tasks, built, chain, results, acquireError, releaseErrors, outcome>>

\* `if (i >= 0)` in place of `while (i >= 0)`: the success walk makes one
\* turn only before the function returns.
FinishAfterOneTurn(v) ==
    /\ pc[v] = "release"
    /\ i[v] < Len(tasks) - 1
    /\ outcome' = [outcome EXCEPT ![v] = SuccessSettled(results[v], successReleaseErrors[v])]
    /\ pc' = [pc EXCEPT ![v] = outcome'[v].kind]
    /\ UNCHANGED <<tasks, built, chain, i, results, acquireError, releaseErrors,
                   successReleaseErrors, pending, log>>

\* After the success walk: throw new AggregateError(...) / return results
Finish(v) ==
    /\ pc[v] = "release"
    /\ ~(i[v] >= 0)
    /\ outcome' = [outcome EXCEPT ![v] = SuccessSettled(results[v], successReleaseErrors[v])]
    /\ pc' = [pc EXCEPT ![v] = outcome'[v].kind]
    /\ UNCHANGED <<tasks, built, chain, i, results, acquireError, releaseErrors,
                   successReleaseErrors, pending, log>>

\* One step of invocation v.
Run(v) ==
    \/ Invoke(v)
    \/ \E how \in Hows : AcquireCall(v, how)
    \/ \E ok \in BOOLEAN : AcquireResume(v, ok)
    \/ ForwardDone(v)
    \/ \E how \in Hows : RollbackRelease(v, how)
    \/ RollbackSkip(v)
    \/ \E ok \in BOOLEAN : RollbackResume(v, ok)
    \/ RollbackThrow(v)
    \/ \E how \in Hows : SuccessRelease(v, how)
    \/ SuccessSkip(v)
    \/ \E ok \in BOOLEAN : SuccessResume(v, ok)
    \/ Finish(v)

\* The usage of the README and the tests: the chain of add() calls is
\* complete when build() is called, and the runner is invoked again only
\* after it has settled.
Next ==
    \/ \E tag \in Tags, hasRelease \in BOOLEAN : ~built /\ Add(tag, hasRelease)
    \/ Build
    \/ Run(FirstInv)

Spec == Init /\ [][Next]_vars

\* Concurrent use: the runner is invoked again while earlier invocations are
\* suspended at an await, so the runs interleave at their suspension points.
NextConc ==
    \/ \E tag \in Tags, hasRelease \in BOOLEAN :
           ~built /\ Len(tasks) < MaxConcSteps /\ Add(tag, hasRelease)
    \/ Build
    \/ \E v \in Invs : Run(v)

SpecConc == Init /\ [][NextConc]_vars

\* add() called on a builder of the chain at any time, also after build()
\* and while the runner is suspended at an await.
NextLate ==
    \/ \E tag \in Tags, hasRelease \in BOOLEAN : Add(tag, hasRelease)
    \/ Build
    \/ Run(FirstInv)

SpecLate == Init /\ [][NextLate]_vars

\* The code of runTransaction between two awaits: once the function has been
\* entered or resumed, the engine runs it to the next await, throw or return.
Proceed(v) ==
    \/ \E how \in Hows : AcquireCall(v, how)
    \/ ForwardDone(v)
    \/ \E how \in Hows : RollbackRelease(v, how)
    \/ RollbackSkip(v)
    \/ RollbackThrow(v)
    \/ \E how \in Hows : SuccessRelease(v, how)
    \/ SuccessSkip(v)
    \/ Finish(v)

\* await Promise.resolve(x) for a plain value x: the promise is fulfilled
\* already, so the function is resumed by the next microtask.
ResumeValue(v) ==
    /\ pending[v] = "return"
    /\ \/ AcquireResume(v, TRUE)
       \/ RollbackResume(v, TRUE)
       \/ SuccessResume(v, TRUE)

\* The usage of Spec under the scheduling of the engine. Nothing obliges a
\* promise returned by an acquire or a release to settle, and nothing
\* obliges the caller to call add(), build() or the runner.
SpecLive ==
    /\ Init
    /\ [][Next]_vars
    /\ \A v \in Invs : WF_vars(Proceed(v)) /\ WF_vars(ResumeValue(v))

----------------------------------------------------------------------------
\* Reading the history of an invocation

IsCall(e, op) == e.ev = "call" /\ e.op = op
IsDone(e, op) == e.ev = "done" /\ e.op = op

\* Positions of the history of v where the release of step s is invoked.
ReleaseCallsOf(v, s) ==
    {p \in DOMAIN log[v] : IsCall(log[v][p], "release") /\ log[v][p].step = s}

\* Positions where the acquire of step s is invoked.
AcquireCallsOf(v, s) ==
    {p \in DOMAIN log[v] : IsCall(log[v][p], "acquire") /\ log[v][p].step = s}

\* Steps whose acquire has resolved successfully.
AcquiredSteps(v) ==
    {log[v][p].step : p \in {q \in DOMAIN log[v] : IsDone(log[v][q], "acquire") /\ log[v][q].ok}}

\* The value step s's acquire resolved to.
AcquiredValue(v, s) ==
    log[v][CHOOSE p \in DOMAIN log[v] :
               IsDone(log[v][p], "acquire") /\ log[v][p].ok /\ log[v][p].step = s].val

\* Positions where an acquire / a release has failed.
FailedAcquires(v) ==
    {p \in DOMAIN log[v] : IsDone(log[v][p], "acquire") /\ ~log[v][p].ok}

FailedReleases(v) ==
    {p \in DOMAIN log[v] : IsDone(log[v][p], "release") /\ ~log[v][p].ok}

IsFailedRelease(e) == IsDone(e, "release") /\ ~e.ok

\* The errors the releases raised, in the order they were raised.
RaisedByReleases(v) ==
    LET failed == SelectSeq(log[v], IsFailedRelease)
    IN  [k \in 1 .. Len(failed) |-> failed[k].val]

\* The error the failing acquire raised (there is at most one).
RaisedByAcquire(v) == log[v][CHOOSE p \in FailedAcquires(v) : TRUE].val

\* The last of the steps 0..n-1 that carries tag t.
LastWithTag(n, t) ==
    CHOOSE k \in 0 .. n - 1 :
        /\ tasks[k + 1].tag = t
        /\ \A m \in k + 1 .. n - 1 : tasks[m + 1].tag # t

\* The mapping after steps 0..n-1 have been acquired: one entry per tag, the
\* resource of the last step that carries the tag.
MappingAfter(v, n) ==
    [t \in {tasks[k + 1].tag : k \in 0 .. n - 1} |-> AcquiredValue(v, LastWithTag(n, t))]

\* A mapping as a set of (tag, resource) entries.
Entries(m) == {<<t, m[t]>> : t \in DOMAIN m}

\* One entry for each of the steps 0..n-1.
EntryPerStep(v, n) == {<<tasks[k + 1].tag, AcquiredValue(v, k)>> : k \in 0 .. n - 1}

----------------------------------------------------------------------------
\* C1: when an invocation has settled, every step whose acquire succeeded and
\* that has a release function has had its release invoked exactly once
\* (success, rollback, or release failures alike), and no release is ever
\* invoked twice.
C1_ReleasedExactlyOnce ==
    \A v \in Invs :
        /\ \A s \in 0 .. Len(tasks) - 1 : Cardinality(ReleaseCallsOf(v, s)) <= 1
        /\ Settled(v) =>
               \A s \in AcquiredSteps(v) :
                   tasks[s + 1].release => Cardinality(ReleaseCallsOf(v, s)) = 1

\* A rollback in which a release failed and a later release was still invoked.
C1_Witness ==
    \E v \in Invs :
        /\ pc[v] = "rejected"
        /\ FailedAcquires(v) # {}
        /\ \E p \in FailedReleases(v) :
               \E q \in DOMAIN log[v] : q > p /\ IsCall(log[v][q], "release")

\* C2: releases are invoked in strictly decreasing step index, and when the
\* release of a step is invoked, the release of every acquired step after it
\* that has a release function has already been invoked and has completed
\* (returned, thrown, or its promise settled).
C2_ReleaseOrder ==
    \A v \in Invs :
        \A q \in DOMAIN log[v] :
            IsCall(log[v][q], "release") =>
                /\ \A p \in 1 .. q - 1 :
                       IsCall(log[v][p], "release") => log[v][p].step > log[v][q].step
                /\ \A j \in AcquiredSteps(v) :
                       (j > log[v][q].step /\ tasks[j + 1].release) =>
                           \E p, r \in 1 .. q - 1 :
                               /\ p < r
                               /\ IsCall(log[v][p], "release") /\ log[v][p].step = j
                               /\ IsDone(log[v][r], "release") /\ log[v][r].step = j

\* Two releases, the first of which returned a promise.
C2_Witness ==
    \E v \in Invs :
        \E p, q \in DOMAIN log[v] :
            /\ p < q
            /\ IsCall(log[v][p], "release") /\ log[v][p].how = "promise"
            /\ IsCall(log[v][q], "release")

\* C3 as stated: step s's acquire is invoked only after step s-1's acquire
\* has resolved, and the mapping it receives has one entry for each of the
\* steps 0..s-1 and nothing else.
C3_EntryPerStep ==
    \A v \in Invs :
        \A p \in DOMAIN log[v] :
            IsCall(log[v][p], "acquire") =>
                LET s == log[v][p].step
                IN  /\ s > 0 => \E r \in 1 .. p - 1 :
                           IsDone(log[v][r], "acquire") /\ log[v][r].ok /\ log[v][r].step = s - 1
                    /\ Entries(log[v][p].prev) = EntryPerStep(v, s)

\* C3 (amended): step s's acquire is invoked only after step s-1's acquire
\* has resolved, and the mapping it receives has exactly one entry per tag of
\* the steps 0..s-1, holding the resource of the last of them with that tag.
C3_AcquireOrder ==
    \A v \in Invs :
        \A p \in DOMAIN log[v] :
            IsCall(log[v][p], "acquire") =>
                LET s == log[v][p].step
                IN  /\ s > 0 => \E r \in 1 .. p - 1 :
                           IsDone(log[v][r], "acquire") /\ log[v][r].ok /\ log[v][r].step = s - 1
                    /\ log[v][p].prev = MappingAfter(v, s)
                    /\ \A r \in 1 .. p - 1 : IsCall(log[v][r], "acquire") => log[v][r].step < s

\* The third acquire is invoked, after two steps with different tags.
C3_Witness ==
    \E v \in Invs :
        \E p \in DOMAIN log[v] :
            /\ IsCall(log[v][p], "acquire")
            /\ log[v][p].step = 2
            /\ Cardinality(DOMAIN log[v][p].prev) = 2

\* No operation of the invocation has failed.
NothingFailed(v) == FailedAcquires(v) = {} /\ FailedReleases(v) = {}

\* C4 as stated: when nothing fails, the runner resolves with a mapping that
\* has one entry per step, keyed by the step's tag and holding the resource
\* the step's acquire resolved to.
C4_ResultEntryPerStep ==
    \A v \in Invs :
        (Settled(v) /\ NothingFailed(v)) =>
            /\ outcome[v].kind = "resolved"
            /\ Entries(outcome[v].value) = EntryPerStep(v, Len(tasks))

\* C4 (amended): when nothing fails, the runner resolves with a mapping that
\* has exactly one entry per tag of the step list, holding the resource of the
\* last step with that tag (one entry per step when the tags are distinct);
\* the mapping is empty for the empty step list.
C4_ResultMapping ==
    \A v \in Invs :
        (Settled(v) /\ NothingFailed(v)) =>
            /\ pc[v] = "resolved"
            /\ outcome[v].kind = "resolved"
            /\ AcquiredSteps(v) = 0 .. Len(tasks) - 1
            /\ outcome[v].value = MappingAfter(v, Len(tasks))
            /\ Len(tasks) = 0 => outcome[v].value = EmptyResults

\* A run of two steps with different tags resolves.
C4_Witness ==
    \E v \in Invs :
        /\ pc[v] = "resolved"
        /\ Len(tasks) >= 2
        /\ Cardinality(DOMAIN outcome[v].value) = 2

C6_RollbackAggregate ==
    \A v \in Invs :
        (Settled(v) /\ FailedAcquires(v) # {} /\ FailedReleases(v) # {}) =>
            /\ outcome[v].kind = "rejected"
            /\ outcome[v].error.type = "AggregateError"
            /\ outcome[v].error.errors = <<RaisedByAcquire(v)>> \o RaisedByReleases(v)
            /\ Len(outcome[v].error.errors) = 1 + Cardinality(FailedReleases(v))

\* A rollback in which two releases failed.
C6_Witness ==
    \E v \in Invs :
        /\ pc[v] = "rejected"
        /\ FailedAcquires(v) # {}
        /\ Cardinality(FailedReleases(v)) >= 2

\* C7: when every acquire succeeds and at least one release fails, the
\* invocation fails with an AggregateError whose error list is exactly the
\* release errors in the order the releases were attempted, also when only
\* one release failed; the caller gets no results mapping.
C7_SuccessAggregate ==
    \A v \in Invs :
        (Settled(v) /\ FailedAcquires(v) = {} /\ FailedReleases(v) # {}) =>
            /\ pc[v] = "rejected"
            /\ outcome[v].kind = "rejected"
            /\ "value" \notin DOMAIN outcome[v]
            /\ outcome[v].error.type = "AggregateError"
            /\ outcome[v].error.errors = RaisedByReleases(v)
            /\ Len(outcome[v].error.errors) = Cardinality(FailedReleases(v))

\* Every acquire succeeded and exactly one release failed.
C7_Witness ==
    \E v \in Invs :
        /\ pc[v] = "rejected"
        /\ FailedAcquires(v) = {}
        /\ Cardinality(FailedReleases(v)) = 1
        /\ Cardinality(AcquiredSteps(v)) >= 2

\* The members of an error list.
Members(errs) == {errs[k] : k \in DOMAIN errs}

C9_Exit ==
    \A v \in Invs :
        \A p \in DOMAIN log[v] :
            IsCall(log[v][p], "release") =>
                LET exit == log[v][p].exit
                IN  /\ exit.isError <=> FailedAcquires(v) # {}
                    /\ exit.isError =>
                           /\ DOMAIN exit = {"isError", "error"}
                           /\ exit.error = RaisedByAcquire(v)
                    /\ ~exit.isError => DOMAIN exit = {"isError"}

\* A rollback release invoked after an earlier release of the rollback failed.
C9_Witness ==
    \E v \in Invs :
        \E p \in FailedReleases(v) :
            \E q \in DOMAIN log[v] :
                /\ q > p
                /\ IsCall(log[v][q], "release")
                /\ log[v][q].exit.isError

\* C10: every release of step s receives the value step s's own acquire
\* resolved to, also when several steps carry the same tag.
C10_OwnResource ==
    \A v \in Invs :
        \A p \in DOMAIN log[v] :
            IsCall(log[v][p], "release") =>
                log[v][p].resource = AcquiredValue(v, log[v][p].step)

----------------------------------------------------------------------------
\* Every value an acquire or a release of the invocation has raised.
Raised(v) == {log[v][p].val : p \in FailedAcquires(v) \cup FailedReleases(v)}

\* The errors the runner holds while it runs.
Held(v) ==
    ({acquireError[v]} \ {None})
        \cup Members(releaseErrors[v]) \cup Members(successReleaseErrors[v])

\* C11: no failure is swallowed: the runner holds every error raised so far,
\* and when it settles every error raised is either the sole error it fails
\* with or a member of the error list of the AggregateError it fails with;
\* that list holds nothing else and holds each error once.
C11_NothingSwallowed ==
    \A v \in Invs :
        /\ Held(v) = Raised(v)
        /\ Settled(v) =>
               IF Raised(v) = {}
               THEN outcome[v].kind = "resolved"
               ELSE /\ outcome[v].kind = "rejected"
                    /\ IF outcome[v].error.type = "AggregateError"
                       THEN /\ Members(outcome[v].error.errors) = Raised(v)
                            /\ Len(outcome[v].error.errors) = Cardinality(Raised(v))
                       ELSE Raised(v) = {outcome[v].error}

\* Every acquire succeeded, two releases failed, and the runner has failed
\* with a list of two errors.
C11_Witness ==
    \E v \in Invs :
        /\ pc[v] = "rejected"
        /\ FailedAcquires(v) = {}
        /\ outcome[v].error.type = "AggregateError"
        /\ Len(outcome[v].error.errors) = 2

\* Calls / completions among the first n events of the history.
CallsBefore(v, n) == {p \in 1 .. n : log[v][p].ev = "call"}
DonesBefore(v, n) == {p \in 1 .. n : log[v][p].ev = "done"}

\* C12: at most one acquire or release of an invocation is in flight: an
\* operation is invoked only when every operation invoked before it has
\* completed, and the runner is suspended on the one operation in flight.
C12_OneInFlight ==
    \A v \in Invs :
        /\ \A q \in DOMAIN log[v] :
               log[v][q].ev = "call" =>
                   Cardinality(CallsBefore(v, q - 1)) = Cardinality(DonesBefore(v, q - 1))
        /\ LET inFlight == Cardinality(CallsBefore(v, Len(log[v])))
                               - Cardinality(DonesBefore(v, Len(log[v])))
           IN  /\ inFlight \in {0, 1}
               /\ inFlight = 1 <=> pending[v] = "promise"
               /\ inFlight = 1 => pc[v] \in {"awaitAcquire", "awaitRollback", "awaitRelease"}

\* A release is invoked after an acquire and an earlier release that both
\* returned promises.
C12_Witness ==
    \E v \in Invs :
        \E p, q, r \in DOMAIN log[v] :
            /\ p < q /\ q < r
            /\ IsCall(log[v][p], "acquire") /\ log[v][p].how = "promise"
            /\ IsCall(log[v][q], "release") /\ log[v][q].how = "promise"
            /\ IsCall(log[v][r], "release")

----------------------------------------------------------------------------
\* The values a mapping holds.
ValuesOf(m) == {m[t] : t \in DOMAIN m}

\* x is a resource that invocation v acquired.
OwnResource(v, x) == x.kind = "resource" /\ x.inv = v

\* C13: invocations are independent: the first acquire of every invocation
\* receives an empty mapping, and whatever the interleaving of concurrent
\* invocations, the mapping passed to an acquire, the resource passed to a
\* release and the resolved result hold only values that the same invocation
\* acquired.
C13_Independent ==
    \A v \in Invs :
        /\ \A p \in DOMAIN log[v] :
               /\ IsCall(log[v][p], "acquire") =>
                      /\ \A x \in ValuesOf(log[v][p].prev) : OwnResource(v, x)
                      /\ log[v][p].step = 0 => log[v][p].prev = EmptyResults
               /\ IsCall(log[v][p], "release") => OwnResource(v, log[v][p].resource)
        /\ \A x \in ValuesOf(results[v]) : OwnResource(v, x)
        /\ pc[v] = "resolved" => \A x \in ValuesOf(outcome[v].value) : OwnResource(v, x)

\* Two invocations are under way at once: one has been handed a non-empty
\* mapping by its second acquire while the other holds resources of its own.
C13_Witness ==
    \E v, w \in Invs :
        /\ v # w
        /\ pc[v] \notin {"idle", "resolved", "rejected"}
        /\ pc[w] \notin {"idle", "resolved", "rejected"}
        /\ results[w] # EmptyResults
        /\ \E p \in DOMAIN log[v] :
               IsCall(log[v][p], "acquire") /\ log[v][p].prev # EmptyResults

----------------------------------------------------------------------------
\* What an invocation shows of itself, whichever invocation it is: values are
\* named by the step that produced them.

ShownError(e) ==
    IF e.type = "AggregateError"
    THEN [type |-> e.type, message |-> e.message,
          errors |-> [k \in DOMAIN e.errors |-> <<e.errors[k].op, e.errors[k].step>>]]
    ELSE [type |-> e.type, raised |-> <<e.op, e.step>>]

ShownMapping(m) == [t \in DOMAIN m |-> m[t].step]

ShownExit(x) ==
    IF x.isError THEN [isError |-> TRUE, error |-> ShownError(x.error)] ELSE x

\* A call with its arguments, without the way the operation comes back.
ShownCall(e) ==
    IF e.op = "acquire"
    THEN [op |-> e.op, step |-> e.step, prev |-> ShownMapping(e.prev)]
    ELSE [op |-> e.op, step |-> e.step, resource |-> e.resource.step,
          exit |-> ShownExit(e.exit)]

IsCallEvent(e) == e.ev = "call"

\* The calls of an invocation, in order, with their arguments.
ShownCalls(v) ==
    LET calls == SelectSeq(log[v], IsCallEvent)
    IN  [k \in DOMAIN calls |-> ShownCall(calls[k])]

\* The final result or error of a settled invocation.
ShownOutcome(v) ==
    IF outcome[v].kind = "resolved"
    THEN [kind |-> "resolved", value |-> ShownMapping(outcome[v].value)]
    ELSE [kind |-> "rejected", error |-> ShownError(outcome[v].error)]

\* The operations that failed in an invocation.
FailedOps(v) ==
    {<<log[v][p].op, log[v][p].step>> : p \in FailedAcquires(v) \cup FailedReleases(v)}

\* The ways the operations of an invocation came back.
HowsOf(v) == {log[v][p].how : p \in {q \in DOMAIN log[v] : log[v][q].ev = "call"}}

\* C14: sync/async equivalence: two runs over the same step list in which
\* the same operations fail make the same calls in the same order with the
\* same arguments and end with the same result or error, whichever of their
\* operations throw or return at once and whichever return a promise.
C14_SyncAsyncEquivalent ==
    \A v, w \in Invs :
        (Settled(v) /\ Settled(w) /\ FailedOps(v) = FailedOps(w)) =>
            /\ ShownCalls(v) = ShownCalls(w)
            /\ ShownOutcome(v) = ShownOutcome(w)

\* Two settled runs in which the second acquire failed and the first step
\* was rolled back: in one every operation threw or returned at once, in the
\* other every operation returned a promise.
C14_Witness ==
    \E v, w \in Invs :
        /\ Settled(v) /\ Settled(w)
        /\ FailedOps(v) = FailedOps(w)
        /\ <<"acquire", 1>> \in FailedOps(v)
        /\ ReleaseCallsOf(v, 0) # {} /\ ReleaseCallsOf(w, 0) # {}
        /\ "promise" \notin HowsOf(v)
        /\ HowsOf(w) = {"promise"}

----------------------------------------------------------------------------
\* Reading the history of the builder chain

\* The position of build() in the history (0 before build()).
BuildPosition ==
    IF \E p \in DOMAIN chain : chain[p].call = "build"
    THEN CHOOSE p \in DOMAIN chain : chain[p].call = "build"
    ELSE 0

IsAddCalled(c) == c.call = "add"

\* The steps of the add() calls that preceded build(), in call order.
AddedBeforeBuild ==
    LET adds == SelectSeq(SubSeq(chain, 1, BuildPosition), IsAddCalled)
    IN  [k \in DOMAIN adds |-> adds[k].step]

\* The steps whose acquire the invocation has called, in call order.
StepsRun(v) ==
    LET calls == SelectSeq(log[v], LAMBDA e : IsCall(e, "acquire"))
    IN  [k \in DOMAIN calls |-> tasks[calls[k].step + 1]]

\* C15: add() calls made after build() do not change which steps the runner
\* acquires and releases: every call the runner makes is of a step that
\* build() saw, and a run in which nothing fails acquires those steps only.
C15_LateAddIgnored ==
    \A v \in Invs :
        /\ \A p \in DOMAIN log[v] :
               log[v][p].ev = "call" => log[v][p].step < Len(AddedBeforeBuild)
        /\ pc[v] \in {"release", "awaitRelease", "resolved"} =>
               AcquiredSteps(v) = 0 .. Len(AddedBeforeBuild) - 1

\* C16: the steps a runner runs are exactly the steps of the add() calls that
\* preceded build(), in the order of those calls.
C16_RunsAddedSteps ==
    \A v \in Invs :
        /\ \A k \in DOMAIN StepsRun(v) :
               k <= Len(AddedBeforeBuild) /\ StepsRun(v)[k] = AddedBeforeBuild[k]
        /\ (Settled(v) /\ FailedAcquires(v) = {}) => StepsRun(v) = AddedBeforeBuild

----------------------------------------------------------------------------
\* The steps whose release the invocation has called, in call order.
StepsReleased(v) ==
    LET calls == SelectSeq(log[v], LAMBDA e : IsCall(e, "release"))
    IN  [k \in DOMAIN calls |-> calls[k].step]

\* C17: a step without a release function is skipped in both passes: its
\* release is never called and no error is recorded for it; the releases of
\* the other acquired steps run all the same, in decreasing step index, each
\* with the entry of its tag and the Exit of the pass.
C17_NoReleaseSkipped ==
    \A v \in Invs :
        /\ \A s \in 0 .. Len(tasks) - 1 :
               ~tasks[s + 1].release =>
                   /\ ReleaseCallsOf(v, s) = {}
                   /\ \A p \in DOMAIN log[v] :
                          ~(IsDone(log[v][p], "release") /\ log[v][p].step = s)
                   /\ ReleaseFailure(v, s) \notin Held(v)
                   /\ pc[v] = "rejected" =>
                          ReleaseFailure(v, s) \notin
                              (IF outcome[v].error.type = "AggregateError"
                               THEN Members(outcome[v].error.errors)
                               ELSE {outcome[v].error})
        /\ Settled(v) =>
               LET rel == StepsReleased(v)
               IN  /\ {rel[k] : k \in DOMAIN rel} =
                          {s \in AcquiredSteps(v) : tasks[s + 1].release}
                   /\ \A k \in 1 .. Len(rel) - 1 : rel[k] > rel[k + 1]
                   /\ \A p \in DOMAIN log[v] :
                          IsCall(log[v][p], "release") =>
                              /\ log[v][p].resource = results[v][tasks[log[v][p].step + 1].tag]
                              /\ log[v][p].exit.isError = (acquireError[v] # None)

\* A settled run that released the steps on both sides of an acquired step
\* without a release function.
C17_Witness ==
    \E v \in Invs :
        /\ Settled(v)
        /\ \E s \in AcquiredSteps(v) :
               /\ ~tasks[s + 1].release
               /\ ReleaseCallsOf(v, s + 1) # {}
               /\ ReleaseCallsOf(v, s - 1) # {}

----------------------------------------------------------------------------
\* Steps a < b of the list carry the same tag.
SameTag(a, b) == a < b /\ tasks[a + 1].tag = tasks[b + 1].tag

\* C18: a tag may be used twice: add() accepts any tag whatever the chain
\* holds, the runner raises no error of its own, both acquires are invoked,
\* and once the later step is acquired its resource has replaced the earlier
\* one under the tag, in the mapping later acquires receive and in the
\* resolved result.
C18_DuplicateOverwrites ==
    /\ \A tag \in Tags, hasRelease \in BOOLEAN :
           Len(tasks) < MaxSteps => ENABLED Add(tag, hasRelease)
    /\ \A v \in Invs :
           /\ (Settled(v) /\ NothingFailed(v)) => pc[v] = "resolved"
           /\ \A a, b \in 0 .. Len(tasks) - 1 :
                  (SameTag(a, b) /\ b \in AcquiredSteps(v)) =>
                      /\ Cardinality(AcquireCallsOf(v, a)) = 1
                      /\ Cardinality(AcquireCallsOf(v, b)) = 1
                      /\ ~(pc[v] = "awaitAcquire" /\ i[v] = b) =>
                             AcquiredValue(v, a) \notin ValuesOf(results[v])
                      /\ \A p \in DOMAIN log[v] :
                             (IsCall(log[v][p], "acquire") /\ log[v][p].step > b) =>
                                 /\ AcquiredValue(v, a) \notin ValuesOf(log[v][p].prev)
                                 /\ \/ log[v][p].prev[tasks[b + 1].tag] = AcquiredValue(v, b)
                                    \/ \E c \in b + 1 .. log[v][p].step - 1 : SameTag(b, c)
                      /\ pc[v] = "resolved" =>
                             /\ AcquiredValue(v, a) \notin ValuesOf(outcome[v].value)
                             /\ \/ outcome[v].value[tasks[b + 1].tag] = AcquiredValue(v, b)
                                \/ \E c \in b + 1 .. Len(tasks) - 1 : SameTag(b, c)

\* A run over steps 0 and 1 with the same tag has resolved after a third
\* acquire that received the mapping.
C18_Witness ==
    \E v \in Invs :
        /\ pc[v] = "resolved"
        /\ Len(tasks) >= 3
        /\ SameTag(0, 1)
        /\ AcquireCallsOf(v, 2) # {}

----------------------------------------------------------------------------
\* C19: no acquire is invoked twice, and once the acquire of step f has
\* failed no operation of a later step and no release of step f is ever
\* invoked, no further acquire is invoked at all, and when the invocation
\* has settled the steps released are exactly the steps 0..f-1 that have a
\* release function.
C19_RollbackExtent ==
    \A v \in Invs :
        /\ \A s \in 0 .. Len(tasks) - 1 : Cardinality(AcquireCallsOf(v, s)) <= 1
        /\ \A p \in FailedAcquires(v) :
               LET f == log[v][p].step
               IN  /\ \A q \in DOMAIN log[v] :
                          log[v][q].ev = "call" =>
                              /\ log[v][q].step <= f
                              /\ IsCall(log[v][q], "release") => log[v][q].step < f
                              /\ IsCall(log[v][q], "acquire") => q < p
                   /\ Settled(v) =>
                          {s \in 0 .. Len(tasks) - 1 : ReleaseCallsOf(v, s) # {}} =
                              {s \in 0 .. f - 1 : tasks[s + 1].release}

\* The acquire of the second of three steps failed, the first step was
\* released and the invocation has settled.
C19_Witness ==
    \E v \in Invs :
        /\ pc[v] = "rejected"
        /\ Len(tasks) >= 3
        /\ \E p \in FailedAcquires(v) : log[v][p].step = 1
        /\ ReleaseCallsOf(v, 0) # {}

----------------------------------------------------------------------------
\* C20: in the history of an invocation no acquire is invoked after a
\* release has been invoked or after an acquire has failed, and every entry
\* of the mapping passed to an acquire is the value of an acquire that has
\* succeeded before and has not been passed to any release before.
C20_PhasesDisjoint ==
    \A v \in Invs :
        \A q \in DOMAIN log[v] :
            IsCall(log[v][q], "acquire") =>
                /\ \A p \in 1 .. q - 1 :
                       /\ ~IsCall(log[v][p], "release")
                       /\ ~(IsDone(log[v][p], "acquire") /\ ~log[v][p].ok)
                /\ \A t \in DOMAIN log[v][q].prev :
                       /\ \E p \in 1 .. q - 1 :
                              /\ IsDone(log[v][p], "acquire")
                              /\ log[v][p].ok
                              /\ log[v][p].val = log[v][q].prev[t]
                       /\ \A p \in 1 .. q - 1 :
                              IsCall(log[v][p], "release") =>
                                  log[v][p].resource # log[v][q].prev[t]

\* A settled invocation in which an acquire was handed a non-empty mapping
\* and, later, a release was invoked with one of that mapping's resources.
C20_Witness ==
    \E v \in Invs :
        /\ Settled(v)
        /\ \E q, r \in DOMAIN log[v] :
               /\ q < r
               /\ IsCall(log[v][q], "acquire")
               /\ IsCall(log[v][r], "release")
               /\ log[v][r].resource \in ValuesOf(log[v][q].prev)

----------------------------------------------------------------------------
\* A step of the model in which invocation v is called anew.
Reinvoked(v) == pc'[v] = "forward" /\ log'[v] = <<>> /\ outcome'[v] = None

\* The promise of invocation v has an outcome exactly when the run is over,
\* and the outcome is of the kind the run ended with.
OneOutcome(v) ==
    /\ Settled(v) <=> outcome[v] # None
    /\ Settled(v) => outcome[v].kind = pc[v]
    /\ outcome[v] # None => outcome[v].kind \in {"resolved", "rejected"}

\* C21: a settled invocation has resolved if and only if none of its
\* acquires and none of its invoked releases has failed, and has been
\* rejected otherwise; it has one outcome, of one kind, and once it has
\* settled its outcome and its history never change again (until the runner
\* is called anew).
C21_ResolvesIffAllSucceeded ==
    /\ [](\A v \in Invs :
            /\ OneOutcome(v)
            /\ Settled(v) => (pc[v] = "resolved" <=> NothingFailed(v))
            /\ Settled(v) => (pc[v] = "rejected" <=> ~NothingFailed(v)))
    /\ [][\A v \in Invs :
            Settled(v) =>
                \/ Reinvoked(v)
                \/ /\ outcome'[v] = outcome[v]
                   /\ pc'[v] = pc[v]
                   /\ log'[v] = log[v]]_vars

\* Every acquire succeeded and a release of the success walk failed: the
\* invocation has been rejected.
C21_Witness ==
    \E v \in Invs :
        /\ pc[v] = "rejected"
        /\ FailedAcquires(v) = {}
        /\ FailedReleases(v) # {}
        /\ Len(tasks) >= 2

----------------------------------------------------------------------------
\* Positions of the history of v where a release of step s has completed
\* without an error.
ReleaseCompletionsOf(v, s) ==
    {p \in DOMAIN log[v] :
        IsDone(log[v][p], "release") /\ log[v][p].ok /\ log[v][p].step = s}

\* Positions where a release was handed resource x.
ReleaseCallsWith(v, x) ==
    {p \in DOMAIN log[v] : IsCall(log[v][p], "release") /\ log[v][p].resource = x}

\* C22: when an invocation has resolved, the release of every step that has
\* a release function has been invoked and has completed, the walk has gone
\* below step 0, and every resource of the returned mapping whose step has a
\* release function has been handed to a release that has completed.
C22_ResolvesAfterReleases ==
    \A v \in Invs :
        pc[v] = "resolved" =>
            /\ i[v] < 0
            /\ pending[v] = "none"
            /\ \A s \in 0 .. Len(tasks) - 1 :
                   tasks[s + 1].release =>
                       /\ ReleaseCallsOf(v, s) # {}
                       /\ \A p \in ReleaseCallsOf(v, s) :
                              \E q \in ReleaseCompletionsOf(v, s) : p < q
            /\ \A t \in DOMAIN outcome[v].value :
                   LET x == outcome[v].value[t]
                   IN  tasks[x.step + 1].release =>
                           \E p \in ReleaseCallsWith(v, x) :
                               \E q \in ReleaseCompletionsOf(v, log[v][p].step) : p < q

\* A resolved invocation of at least two steps with a release function, one
\* of which returned a promise.
C22_Witness ==
    \E v \in Invs :
        /\ pc[v] = "resolved"
        /\ Cardinality({s \in 0 .. Len(tasks) - 1 : tasks[s + 1].release}) >= 2
        /\ \E p \in DOMAIN log[v] :
               IsCall(log[v][p], "release") /\ log[v][p].how = "promise"

----------------------------------------------------------------------------
\* Invocation v is between its call and its outcome.
Running(v) == pc[v] \notin {"idle", "resolved", "rejected"}

\* Invocation v waits for a promise that an acquire or a release returned.
InFlight(v) ==
    /\ pc[v] \in {"awaitAcquire", "awaitRollback", "awaitRelease"}
    /\ pending[v] = "promise"

\* The one thing that happens to an invocation whose operation is in flight:
\* the operation completes.
Completes(v) ==
    /\ ~InFlight(v)'
    /\ Len(log'[v]) = Len(log[v]) + 1
    /\ SubSeq(log'[v], 1, Len(log[v])) = log[v]
    /\ log'[v][Len(log'[v])].ev = "done"
    /\ log'[v][Len(log'[v])].step = i[v]

\* C23: the acquire and the release of a step are each invoked at most once
\* in an invocation; an invocation whose operations in flight always
\* complete eventually settles; and while an operation is in flight the
\* invocation has no outcome and nothing happens in it but the completion of
\* that operation, so it neither settles nor invokes anything if the
\* operation never completes.
C23_SettlesOrHangs ==
    /\ [](\A v \in Invs : \A s \in 0 .. Len(tasks) - 1 :
            /\ Cardinality(AcquireCallsOf(v, s)) <= 1
            /\ Cardinality(ReleaseCallsOf(v, s)) <= 1)
    /\ \A v \in Invs :
           [](InFlight(v) => <>~InFlight(v)) => (Running(v) ~> Settled(v))
    /\ [](\A v \in Invs : InFlight(v) => ~Settled(v) /\ outcome[v] = None)
    /\ [][\A v \in Invs :
            InFlight(v) =>
                \/ Completes(v)
                \/ /\ InFlight(v)'
                   /\ log'[v] = log[v]
                   /\ pc'[v] = pc[v]
                   /\ i'[v] = i[v]]_vars

\* An invocation of three steps has settled after an acquire and a release
\* that returned promises.
C23_Witness ==
    \E v \in Invs :
        /\ Settled(v)
        /\ Len(tasks) >= 3
        /\ \E p, q \in DOMAIN log[v] :
               /\ IsCall(log[v][p], "acquire") /\ log[v][p].how = "promise"
               /\ IsCall(log[v][q], "release") /\ log[v][q].how = "promise"

\* Without the completion of the operations in flight an invocation need not
\* settle.
SettlesAnyway == \A v \in Invs : Running(v) ~> Settled(v)

----------------------------------------------------------------------------
\* A step of the model that is a call of add() or of build().
BuilderCalled == tasks' # tasks \/ built' # built \/ chain' # chain

\* A step of the model that is a call of the runner, as invocation v.
RunnerCalled(v) == ~Running(v) /\ Running(v)'

\* C24: a call of add() or build() changes nothing in any invocation, so it
\* adds no call to any history; an invocation has a history only once the
\* runner exists and has been called; a call of the runner starts with an
\* empty mapping, an empty history and i = 0, and the first operation of
\* every invocation is the acquire of step 0, handed the empty mapping.
C24_OnlyTheRunnerRuns ==
    /\ [][BuilderCalled => UNCHANGED invVars]_vars
    /\ [](\A v \in Invs :
            /\ pc[v] = "idle" => log[v] = <<>>
            /\ Running(v) \/ Settled(v) => built
            /\ log[v] # <<>> =>
                   /\ IsCall(log[v][1], "acquire")
                   /\ log[v][1].step = 0
                   /\ log[v][1].prev = EmptyResults)
    /\ [][\A v \in Invs :
            /\ RunnerCalled(v) =>
                   /\ pc'[v] = "forward"
                   /\ i'[v] = 0
                   /\ results'[v] = EmptyResults
                   /\ log'[v] = <<>>
            /\ (Len(log[v]) = 0 /\ Len(log'[v]) > 0) => pc[v] = "forward" /\ i[v] = 0]_vars

\* Two invocations of the runner of a chain of two steps: one has gone past
\* step 0, the other has just invoked the acquire of step 0.
C24_Witness ==
    \E v, w \in Invs :
        /\ v # w
        /\ Len(tasks) >= 2
        /\ i[v] >= 1 /\ pc[v] = "awaitAcquire"
        /\ i[w] = 0 /\ pc[w] = "awaitAcquire"
        /\ log[w] # <<>>

====
